---- MODULE Spec2Model ----
(***************************************************************************)
(* Model of src/awsagent.py (class AWSCloudAgent): keyword-driven context  *)
(* assembly (get_aws_context and the _get_*_summary formatters), the query *)
(* orchestrator (query) and the interactive read loop (interactive_mode).  *)
(*                                                                         *)
(* Representation of Python strings.                                       *)
(*  - A user question or input line is a sequence of one-character         *)
(*    strings, so that lower(), strip() and the substring test `in` are    *)
(*    computed as Python computes them.                                    *)
(*  - A text produced by the program is the sequence of its lines (the     *)
(*    text split at "\n"); the empty string is the empty sequence.  A line *)
(*    is a record [dom, tag, n, s]: the domain prefix the f-string starts  *)
(*    with, which f-string produced it, and the numbers and the string     *)
(*    interpolated into it.  A text ending in "\n" ends with EmptyLine.    *)
(***************************************************************************)
EXTENDS Integers, Sequences, FiniteSets, TLC

\* Largest list a source client returns in the model (one more than the cap).
MaxItems == 6

\* The slice bound of instances[:5], buckets[:5], functions[:5].
Cap == 5

Min(a, b) == IF a < b THEN a ELSE b

----------------------------------------------------------------------------
(* str.lower(), str.strip() and the substring test *)

UpperToLower ==
  [A |-> "a", B |-> "b", C |-> "c", D |-> "d", E |-> "e", F |-> "f",
   G |-> "g", H |-> "h", I |-> "i", J |-> "j", K |-> "k", L |-> "l",
   M |-> "m", N |-> "n", O |-> "o", P |-> "p", Q |-> "q", R |-> "r",
   S |-> "s", T |-> "t", U |-> "u", V |-> "v", W |-> "w", X |-> "x",
   Y |-> "y", Z |-> "z"]

\* Faulty variant of lower(): the string is left as typed.
LowerAsTyped(s) == s

lower(s) == [i \in 1..Len(s) |-> IF s[i] \in DOMAIN UpperToLower
                                   THEN UpperToLower[s[i]] ELSE s[i]]

Whitespace == {" ", "\t"}

RECURSIVE lstrip(_)
lstrip(s) == IF s # <<>> /\ Head(s) \in Whitespace THEN lstrip(Tail(s)) ELSE s

RECURSIVE rstrip(_)
rstrip(s) == IF s # <<>> /\ s[Len(s)] \in Whitespace
               THEN rstrip(SubSeq(s, 1, Len(s) - 1)) ELSE s

strip(s) == rstrip(lstrip(s))

\* Python's `k in s` for strings.
IsSubstring(k, s) ==
  \E i \in 0..(Len(s) - Len(k)) : SubSeq(s, i + 1, i + Len(k)) = k

----------------------------------------------------------------------------
(* Lines and texts *)

Line(dom, tag, n, s) == [dom |-> dom, tag |-> tag, n |-> n, s |-> s]

EmptyLine == Line("", "empty", <<>>, "")

\* What a summary method hands back: exc is the message of an exception that
\* escapes the method ("" when it returns), text is the returned string.
Returned(text) == [exc |-> "", text |-> text]
Escaped(e) == [exc |-> e, text |-> <<>>]

----------------------------------------------------------------------------
(* The service clients and what they answer *)

\* self.clients after _initialize_service_clients succeeded.
ClientTable ==
  [ec2 |-> "ec2", iam |-> "iam", rds |-> "rds", s3 |-> "s3",
   lambda |-> "lambda", cloudformation |-> "cloudformation", ecs |-> "ecs",
   eks |-> "eks", route53 |-> "route53", cloudwatch |-> "cloudwatch",
   cost_explorer |-> "ce", organizations |-> "organizations"]

\* _initialize_service_clients swallowed an exception: the attribute
\* self.clients was never assigned, and every later read of it raises.
Unset == [missing |-> "clients"]

AttributeError == "'AWSCloudAgent' object has no attribute 'clients'"

\* The summary methods, by the prefix of the text they return.
Doms == {"Account", "EC2", "S3", "RDS", "Lambda", "Cost", "VPC"}

Item(i, state, amount) == [id |-> i, state |-> state, amount |-> amount]

\* n entities, the first t of them terminated.
Items(n, t) ==
  [i \in 1..n |-> Item(i, IF i <= t THEN "terminated" ELSE "running", 0)]

Ok(items) == [kind |-> "ok", items |-> items, err |-> ""]
Fail(e) == [kind |-> "fail", items |-> <<>>, err |-> e]
\* A response without the key the summary reads.
Malformed == [kind |-> "malformed", items |-> <<>>, err |-> ""]

ListLens == {0, 2, Cap, MaxItems}

\* Cost amounts in thousandths of a dollar ("123.450" is 123450); none of
\* them lies halfway between two cents.
Amounts == {0, 123450, 123456, 9996}

RespSet(dom) ==
  CASE dom = "Account" -> {Ok(<<Item(42, "", 0)>>), Fail("ExpiredToken")}
    [] dom = "EC2" -> {Fail("AccessDenied"), Malformed}
                        \cup {Ok(Items(n, 0)) : n \in ListLens}
                        \cup {Ok(Items(3, 1)), Ok(Items(1, 1))}
    [] dom = "Cost" -> {Fail("AccessDenied"), Malformed, Ok(<<>>)}
                        \cup {Ok(<<Item(1, "", a)>>) : a \in Amounts}
    [] OTHER -> {Fail("AccessDenied"), Malformed}
                        \cup {Ok(Items(n, 0)) : n \in ListLens}

\* The answers of the sources a case does not vary: all failing, or the
\* account of the scenarios (two entities everywhere, 123.45 spent).
AllFail == [d \in Doms |-> Fail("AccessDenied")]
Scenario ==
  [d \in Doms |-> CASE d = "Account" -> Ok(<<Item(42, "", 0)>>)
                    [] d = "Cost" -> Ok(<<Item(1, "", 123450)>>)
                    [] OTHER -> Ok(Items(2, 0))]
Backgrounds == {AllFail, Scenario}

----------------------------------------------------------------------------
(* The summary methods.  cl is self.clients, r the answer of the source.   *)

\* Faulty variant of dict.get: dict.setdefault, which stores the default.
dict_setdefault(d, k, default) ==
  [value |-> IF k \in DOMAIN d THEN d[k] ELSE default,
   dict |-> IF k \in DOMAIN d THEN d ELSE [x \in DOMAIN d \cup {k} |->
                                          IF x = k THEN default ELSE d[x]]]

\* dict.get(k, default): the value found, and the dict as the call leaves it.
dict_get(d, k, default) ==
  [value |-> IF k \in DOMAIN d THEN d[k] ELSE default, dict |-> d]

\* - Account ID: {identity.get('Account')} and - Region: {region_name or
\* 'us-east-1'}; the session of the model has no region configured.
AccountText(id) ==
  << Line("Account", "header", <<>>, ""),
     Line("Account", "id", << id >>, ""),
     Line("Account", "region", <<>>, "us-east-1") >>

\* Faulty variant of _get_account_summary: the except clause is missing and
\* an exception of the client escapes.
account_summary_no_except(cl, r, interrupted) ==
  IF cl = Unset THEN [exc |-> AttributeError, text |-> <<>>, clients |-> cl]
  ELSE IF r.kind = "fail"
    THEN [exc |-> r.err, text |-> <<>>, clients |-> dict_get(cl, "sts", "sts").dict]
  ELSE IF interrupted
    THEN [exc |-> "", text |-> <<>>, clients |-> dict_get(cl, "sts", "sts").dict]
  ELSE [exc |-> "", text |-> AccountText(r.items[1].id),
        clients |-> dict_get(cl, "sts", "sts").dict]

\* interrupted: a KeyboardInterrupt is raised inside the try block; the bare
\* `except:` catches it like any other exception and "" is returned.
_get_account_summary(cl, r, interrupted) ==
  IF cl = Unset THEN [exc |-> "", text |-> <<>>, clients |-> cl]
  ELSE IF interrupted \/ r.kind = "fail"
    THEN [exc |-> "", text |-> <<>>, clients |-> dict_get(cl, "sts", "sts").dict]
  ELSE [exc |-> "", text |-> AccountText(r.items[1].id),
        clients |-> dict_get(cl, "sts", "sts").dict]

\* The `except Exception as e` clause of a summary method.
Unable(dom, e) == Returned(<< Line(dom, "unable", <<>>, e) >>)

\* header line, one line per listed entity, then the "\n" of the last line
ListText(dom, total, shown) ==
  << Line(dom, "header", <<total>>, "") >>
    \o [k \in 1..Len(shown) |-> Line(dom, "item", <<shown[k].id>>, shown[k].state)]
    \o << EmptyLine >>

NotTerminated(i) == i.state # "terminated"

_get_ec2_summary(cl, r) ==
  IF cl = Unset THEN Unable("EC2", AttributeError)
  ELSE IF r.kind = "fail" THEN Unable("EC2", r.err)
  ELSE IF r.kind = "malformed" THEN Unable("EC2", "'Reservations'")
  ELSE LET instances == SelectSeq(r.items, NotTerminated) IN
       IF instances # <<>>
         THEN Returned(ListText("EC2", Len(instances),
                                SubSeq(instances, 1, Min(Cap, Len(instances)))))
         ELSE Returned(<< Line("EC2", "none", <<>>, "") >>)

\* Faulty variant of _get_s3_summary: the except clause is missing.
s3_summary_no_except(cl, r) ==
  IF cl = Unset THEN Escaped(AttributeError)
  ELSE IF r.kind = "fail" THEN Escaped(r.err)
  ELSE LET buckets == r.items IN
       IF buckets # <<>>
         THEN Returned(ListText("S3", Len(buckets),
                                SubSeq(buckets, 1, Min(Cap, Len(buckets)))))
         ELSE Returned(<< Line("S3", "none", <<>>, "") >>)

\* response.get('Buckets', []): a response without the key lists nothing.
_get_s3_summary(cl, r) ==
  IF cl = Unset THEN Unable("S3", AttributeError)
  ELSE IF r.kind = "fail" THEN Unable("S3", r.err)
  ELSE LET buckets == r.items IN
       IF buckets # <<>>
         THEN Returned(ListText("S3", Len(buckets),
                                SubSeq(buckets, 1, Min(Cap, Len(buckets)))))
         ELSE Returned(<< Line("S3", "none", <<>>, "") >>)

\* `for db in instances:` renders every instance.
_get_rds_summary(cl, r) ==
  IF cl = Unset THEN Unable("RDS", AttributeError)
  ELSE IF r.kind = "fail" THEN Unable("RDS", r.err)
  ELSE LET instances == r.items IN
       IF instances # <<>>
         THEN Returned(ListText("RDS", Len(instances), instances))
         ELSE Returned(<< Line("RDS", "none", <<>>, "") >>)

_get_lambda_summary(cl, r) ==
  IF cl = Unset THEN Unable("Lambda", AttributeError)
  ELSE IF r.kind = "fail" THEN Unable("Lambda", r.err)
  ELSE LET functions == r.items IN
       IF functions # <<>>
         THEN Returned(ListText("Lambda", Len(functions),
                                SubSeq(functions, 1, Min(Cap, Len(functions)))))
         ELSE Returned(<< Line("Lambda", "none", <<>>, "") >>)

\* Faulty variant of the .2f format: the amount is cut to whole dollars.
format_0f(a) == << a \div 1000, 0 >>

\* f"{float(amount):.2f}" of an amount given in thousandths: the dollars and
\* the two digits after the point, rounded to the nearest cent.
format_2f(a) == LET cents == (a + 5) \div 10 IN << cents \div 100, cents % 100 >>

_get_cost_summary(cl, r) ==
  IF cl = Unset THEN Unable("Cost", AttributeError)
  ELSE IF r.kind = "fail" THEN Unable("Cost", r.err)
  ELSE IF r.kind = "malformed" THEN Unable("Cost", "'ResultsByTime'")
  ELSE IF r.items # <<>>
    THEN Returned(<< Line("Cost", "header", <<>>, ""),
                     Line("Cost", "amount", format_2f(r.items[1].amount), "USD") >>)
    ELSE Returned(<< Line("Cost", "unavailable", <<>>, "") >>)

\* `for vpc in vpcs:` renders every VPC; the client is self.clients['ec2'].
_get_vpc_summary(cl, r) ==
  IF cl = Unset THEN Unable("VPC", AttributeError)
  ELSE IF r.kind = "fail" THEN Unable("VPC", r.err)
  ELSE IF r.kind = "malformed" THEN Unable("VPC", "'Vpcs'")
  ELSE LET vpcs == r.items IN
       IF vpcs # <<>>
         THEN Returned(ListText("VPC", Len(vpcs), vpcs))
         ELSE Returned(<< Line("VPC", "none", <<>>, "") >>)

Summary(dom, cl, r) ==
  CASE dom = "EC2" -> _get_ec2_summary(cl, r)
    [] dom = "S3" -> _get_s3_summary(cl, r)
    [] dom = "RDS" -> _get_rds_summary(cl, r)
    [] dom = "Lambda" -> _get_lambda_summary(cl, r)
    [] dom = "Cost" -> _get_cost_summary(cl, r)
    [] dom = "VPC" -> _get_vpc_summary(cl, r)

----------------------------------------------------------------------------
(* get_aws_context *)

\* Faulty variant of Topics: the VPC statement comes first.
TopicsVpcFirst ==
  << [dom |-> "VPC", keywords |-> {<<"v","p","c">>, <<"n","e","t","w","o","r","k">>,
                                   <<"s","e","c","u","r","i","t","y">>}],
     [dom |-> "EC2", keywords |-> {<<"e","c","2">>, <<"i","n","s","t","a","n","c","e">>,
                                   <<"s","e","r","v","e","r">>,
                                   <<"c","o","m","p","u","t","e">>}],
     [dom |-> "S3", keywords |-> {<<"s","3">>, <<"s","t","o","r","a","g","e">>,
                                  <<"b","u","c","k","e","t">>}],
     [dom |-> "RDS", keywords |-> {<<"r","d","s">>, <<"d","a","t","a","b","a","s","e">>,
                                   <<"d","b">>}],
     [dom |-> "Lambda", keywords |-> {<<"l","a","m","b","d","a">>,
                                      <<"s","e","r","v","e","r","l","e","s","s">>,
                                      <<"f","u","n","c","t","i","o","n">>}],
     [dom |-> "Cost", keywords |-> {<<"c","o","s","t">>, <<"b","i","l","l","i","n","g">>,
                                    <<"p","r","i","c","e">>,
                                    <<"e","x","p","e","n","s","i","v","e">>}] >>

\* The `if any(keyword in query_lower ...)` statements, in program order.
Topics ==
  << [dom |-> "EC2", keywords |-> {<<"e","c","2">>, <<"i","n","s","t","a","n","c","e">>,
                                   <<"s","e","r","v","e","r">>,
                                   <<"c","o","m","p","u","t","e">>}],
     [dom |-> "S3", keywords |-> {<<"s","3">>, <<"s","t","o","r","a","g","e">>,
                                  <<"b","u","c","k","e","t">>}],
     [dom |-> "RDS", keywords |-> {<<"r","d","s">>, <<"d","a","t","a","b","a","s","e">>,
                                   <<"d","b">>}],
     [dom |-> "Lambda", keywords |-> {<<"l","a","m","b","d","a">>,
                                      <<"s","e","r","v","e","r","l","e","s","s">>,
                                      <<"f","u","n","c","t","i","o","n">>}],
     [dom |-> "Cost", keywords |-> {<<"c","o","s","t">>, <<"b","i","l","l","i","n","g">>,
                                    <<"p","r","i","c","e">>,
                                    <<"e","x","p","e","n","s","i","v","e">>}],
     [dom |-> "VPC", keywords |-> {<<"v","p","c">>, <<"n","e","t","w","o","r","k">>,
                                   <<"s","e","c","u","r","i","t","y">>}] >>

\* any(keyword in query_lower for keyword in [...])
any_keyword(keywords, query_lower) ==
  \E keyword \in keywords : IsSubstring(keyword, query_lower)

\* "\n\n".join(filter(None, context_parts))
RECURSIVE join(_)
join(parts) ==
  IF parts = <<>> THEN <<>>
  ELSE IF Head(parts) = <<>> THEN join(Tail(parts))
  ELSE LET rest == join(Tail(parts)) IN
       IF rest = <<>> THEN Head(parts) ELSE Head(parts) \o << EmptyLine >> \o rest

\* The state of one call of the method: context_parts, the summary methods
\* invoked so far (calls), the message of an Exception on its way to
\* `except Exception` (exc), whether a KeyboardInterrupt is on its way out
\* of the method (interrupt), and self.clients.

\* context_parts.append(self._get_account_summary())
append_account(acct) ==
  [context_parts |-> IF acct.exc = "" THEN << acct.text >> ELSE <<>>,
   calls |-> << "Account" >>, exc |-> acct.exc, interrupt |-> FALSE,
   clients |-> acct.clients]

\* context_parts.append(self._get_<dom>_summary()), sm being what the
\* summary method hands back
append_summary(st, dom, sm) ==
  [st EXCEPT !.calls = Append(@, dom),
             !.exc = sm.exc,
             !.context_parts = IF sm.exc = "" THEN Append(@, sm.text) ELSE @]

\* a KeyboardInterrupt arrives while the summary method of dom runs
interrupt_summary(st, dom) ==
  [st EXCEPT !.calls = Append(@, dom), !.interrupt = TRUE]

\* The statements of the try block from the i-th `if` on.
\* intr = "fetch": the interrupt arrives during the first topic fetch.
RECURSIVE gather(_, _, _, _, _, _)
gather(i, query_lower, rs, cl, intr, st) ==
  IF i > Len(Topics) \/ st.exc # "" \/ st.interrupt THEN st
  ELSE IF ~ any_keyword(Topics[i].keywords, query_lower)
    THEN gather(i + 1, query_lower, rs, cl, intr, st)
  ELSE IF intr = "fetch" /\ Len(st.calls) = 1
    THEN interrupt_summary(st, Topics[i].dom)
  ELSE gather(i + 1, query_lower, rs, cl, intr,
              append_summary(st, Topics[i].dom,
                             Summary(Topics[i].dom, cl, rs[Topics[i].dom])))

\* The `except Exception as e` clause and the return statement.  For a str
\* argument nothing in the try block raises an Exception (every summary
\* method catches its own), so exc is "" whenever the method gets here.
return_context(st) ==
  [interrupt |-> st.interrupt,
   text |-> IF st.interrupt THEN <<>>
            ELSE IF st.exc # ""
              THEN join(Append(st.context_parts,
                               << Line("Note", "limited", <<>>, st.exc) >>))
              ELSE join(st.context_parts),
   calls |-> st.calls,
   clients |-> st.clients]

\* The whole method: the returned text, the summary methods it invoked in
\* order, self.clients afterwards, and whether a KeyboardInterrupt left it.
get_aws_context(query, rs, cl, intr) ==
  return_context(
    gather(1, lower(query), rs, cl, intr,
           append_account(_get_account_summary(cl, rs["Account"], intr = "account"))))

----------------------------------------------------------------------------
(* The questions and the cases the model runs *)

Q_Empty == <<>>
Q_Hello == <<"h","e","l","l","o">>
Q_WhatEc2 == <<"W","h","a","t"," ","E","C","2"," ","i","n","s","t","a","n","c","e","s"," ","d","o"," ","I"," ","h","a","v","e","?">>
Q_Spending == <<"h","o","w"," ","m","u","c","h"," ","a","m"," ","I"," ","s","p","e","n","d","i","n","g">>
Q_MonthlyCost == <<"M","o","n","t","h","l","y"," ","C","O","S","T">>
Q_S3Bucket == <<"S","3"," ","B","u","c","k","e","t">>
Q_Serverless == <<"s","e","r","v","e","r","l","e","s","s">>
Q_Feedback == <<"f","e","e","d","b","a","c","k">>
Q_VpcAndRds == <<"V","P","C"," ","a","n","d"," ","R","D","S">>
Q_BucketBilling == <<"b","i","l","l","i","n","g"," ","p","e","r"," ","b","u","c","k","e","t">>
Q_All == <<"n","e","t","w","o","r","k"," ","c","o","s","t"," ","o","f"," ","l","a","m","b","d","a"," ","d","b"," ","s","3"," ","e","c","2">>

\* A case: a question and the sources whose answers are varied over all of
\* RespSet; the other sources answer as one of Backgrounds says.
Case(q, vary) == [q |-> q, vary |-> vary]

ContextCases ==
  { Case(Q_Empty, {"Account"}),
    Case(Q_Hello, {"Account", "S3"}),
    Case(Q_WhatEc2, {"Account", "EC2"}),
    Case(Q_Spending, {"Account", "Cost"}),
    Case(Q_MonthlyCost, {"Account", "Cost"}),
    Case(Q_S3Bucket, {"Account", "S3"}),
    Case(Q_Serverless, {"Account", "EC2", "Lambda"}),
    Case(Q_Feedback, {"Account", "RDS"}),
    Case(Q_VpcAndRds, {"Account", "RDS", "VPC"}),
    Case(Q_BucketBilling, {"S3", "Cost"}),
    Case(Q_All, {"Account"}) }

Answer(c, b, d) == IF d \in c.vary THEN RespSet(d) ELSE {b[d]}

\* The answers of the sources in a case.
Answers(c) ==
  UNION { { [Account |-> a0, EC2 |-> a1, S3 |-> a2, RDS |-> a3, Lambda |-> a4,
             Cost |-> a5, VPC |-> a6] :
              a0 \in Answer(c, b, "Account"), a1 \in Answer(c, b, "EC2"),
              a2 \in Answer(c, b, "S3"), a3 \in Answer(c, b, "RDS"),
              a4 \in Answer(c, b, "Lambda"), a5 \in Answer(c, b, "Cost"),
              a6 \in Answer(c, b, "VPC") } : b \in Backgrounds }

----------------------------------------------------------------------------
(* query *)

Completion(kind, content, err) == [kind |-> kind, content |-> content, err |-> err]

\* What litellm.completion does: a response with a content string, a response
\* whose message.content is None, a response with no choices, or an exception.
Completions ==
  { Completion("content", "You have 2 running instances.", ""),
    Completion("content", "", ""),
    Completion("content_none", "", ""),
    Completion("no_choices", "", "list index out of range"),
    Completion("raise", "", "APIConnectionError"),
    Completion("raise", "", "AuthenticationError") }

\* Values query returns: a str (its lines) or None.
Str(text) == [type |-> "str", text |-> text]
None == [type |-> "NoneType", text |-> <<>>]

\* The `except Exception as e` clause of query.
ErrorProcessing(e) ==
  Str(<< Line("Error", "processing", <<>>, e), EmptyLine,
         Line("Error", "hint", <<>>, "") >>)

\* The statements of query after get_aws_context returned ctx.
\* interrupt: a KeyboardInterrupt leaves the method (`except Exception` does
\* not catch it) and nothing is returned.  intr = "completion": it arrives
\* during litellm.completion.
complete(ctx, comp, intr) ==
  [interrupt |-> ctx.interrupt \/ intr = "completion",
   ret |-> IF ctx.interrupt \/ intr = "completion" \/ comp.kind = "content_none"
             THEN None
           ELSE IF comp.kind = "content"
             THEN Str(<< Line("LLM", "content", <<>>, comp.content) >>)
             ELSE ErrorProcessing(comp.err),
   calls |-> ctx.calls,
   aws_context |-> ctx.text,
   clients |-> ctx.clients,
   completions |-> IF ctx.interrupt THEN 0 ELSE 1]

\* The whole method.
query(question, rs, cl, comp, intr) ==
  complete(get_aws_context(question, rs, cl, intr), comp, intr)

QueryCases ==
  { Case(Q_Empty, {"Account"}),
    Case(Q_Hello, {"Account"}),
    Case(Q_WhatEc2, {"Account", "EC2"}),
    Case(Q_All, {"Account"}) }

----------------------------------------------------------------------------
(* interactive_mode *)

L_Quit == <<" "," ","Q","U","I","T"," ">>
L_Exit == <<"E","x","i","t">>
L_q == <<"q">>
L_Spaces == <<" "," "," ">>
L_QuitNow == <<"q","u","i","t"," ","n","o","w">>
L_Ec2 == <<" ","e","c","2"," ">>

\* ['quit', 'exit', 'q']
QuitWords == { <<"q","u","i","t">>, <<"e","x","i","t">>, <<"q">> }

Lines == { L_Quit, L_Exit, L_q, L_Spaces, Q_Empty, L_QuitNow, L_Ec2, Q_Hello }

ReadOf(kind, text) == [kind |-> kind, text |-> text]

\* What input("You: ") can do: return a line, raise EOFError (the stream has
\* ended, and stays ended), raise another Exception (undecodable bytes), or
\* raise KeyboardInterrupt.
Reads(in) ==
  { ReadOf("eof", <<>>), ReadOf("interrupt", <<>>) }
    \cup (IF in = "open"
            THEN { ReadOf("error", <<>>) } \cup { ReadOf("line", l) : l \in Lines }
            ELSE {})

\* Where a KeyboardInterrupt can arrive once a question is being answered.
InterruptPoints == {"none", "account", "fetch", "completion", "print"}

\* Faulty variant of the `except Exception` clause of the loop: it leaves
\* the loop.
on_exception_break(e) == [shell |-> "done", printed |-> << "error" >>]

\* `except Exception as e: print(f"Error: {str(e)}")`, then the next iteration.
on_exception(e) == [shell |-> "prompt", printed |-> << "error" >>]

\* `except KeyboardInterrupt`: goodbye, break.
on_keyboard_interrupt(printed_so_far) ==
  [shell |-> "done", printed |-> Append(printed_so_far, "goodbye_interrupt")]

\* An iteration that asks nothing: what it prints and where it leaves the loop.
unasked(cl, shell_after, printed_after) ==
  [shell |-> shell_after, printed |-> printed_after, queries |-> 0,
   asked |-> FALSE, q |-> None, clients |-> cl]

\* print the prefix, response = self.query(user_input), print(response) and
\* the separator; r is what query does, where = "print" an interrupt during
\* the prints after the query.
asked(r, where) ==
  [shell |-> IF r.interrupt \/ where = "print"
               THEN on_keyboard_interrupt(<< "agent_prefix" >>).shell
               ELSE "prompt",
   printed |-> IF r.interrupt \/ where = "print"
                 THEN on_keyboard_interrupt(<< "agent_prefix" >>).printed
                 ELSE << "agent_prefix", "response", "separator" >>,
   queries |-> 1, asked |-> TRUE, q |-> r, clients |-> r.clients]

\* The statements of the iteration after user_input = input(...).strip().
answer(user_input, rs, cl, comp, where) ==
  IF lower(user_input) \in QuitWords THEN unasked(cl, "done", << "goodbye" >>)
  ELSE IF user_input = <<>> THEN unasked(cl, "prompt", <<>>)
  ELSE asked(query(user_input, rs, cl, comp, where), where)

\* One iteration of `while True:`.  rd is what input() does; rs, comp and
\* where are the answers of the sources, of the completion client and the
\* arrival of an interrupt while the question is answered.
iteration(rd, rs, cl, comp, where) ==
  IF rd.kind = "interrupt"
    THEN unasked(cl, on_keyboard_interrupt(<<>>).shell,
                 on_keyboard_interrupt(<<>>).printed)
  ELSE IF rd.kind = "eof"
    THEN unasked(cl, on_exception("EOF when reading a line").shell,
                 on_exception("EOF when reading a line").printed)
  ELSE IF rd.kind = "error"
    THEN unasked(cl, on_exception("UnicodeDecodeError").shell,
                 on_exception("UnicodeDecodeError").printed)
  ELSE answer(strip(rd.text), rs, cl, comp, where)

----------------------------------------------------------------------------
(* State *)

VARIABLES
  clients,        \* self.clients
  op,             \* the method called last
  user_question,  \* its argument
  answers,        \* what each source answers during the call
  calls,          \* the summary methods the call invoked, in order
  context,        \* the text get_aws_context returned
  ret,            \* the value query returned
  completions,    \* the number of litellm.completion calls of the call
  shell,          \* interactive_mode: "not_started", "prompt" or "done"
  stdin,          \* "open", or "eof" once the input stream has ended
  read,           \* what input() did in the last iteration
  intr,           \* where a KeyboardInterrupt arrived in the last call
  printed,        \* what the last iteration printed
  queries         \* the number of self.query calls of the last iteration

vars == << clients, op, user_question, answers, calls, context, ret,
           completions, shell, stdin, read, intr, printed, queries >>

shellVars == << shell, stdin, read, printed, queries >>

NoRead == [kind |-> "none", text |-> <<>>]

Init ==
  /\ clients \in {ClientTable, Unset}
  /\ op = "none"
  /\ user_question = <<>>
  /\ answers = Scenario
  /\ calls = <<>>
  /\ context = <<>>
  /\ ret = None
  /\ completions = 0
  /\ shell = "not_started"
  /\ stdin = "open"
  /\ read = NoRead
  /\ intr = "none"
  /\ printed = <<>>
  /\ queries = 0

\* agent.get_aws_context(q), called directly and not interrupted
GetAwsContext ==
  \E c \in ContextCases : \E rs \in Answers(c) :
    \E r \in {get_aws_context(c.q, rs, clients, "none")} :
    /\ op' = "get_aws_context"
    /\ user_question' = c.q
    /\ answers' = rs
    /\ calls' = r.calls
    /\ context' = r.text
    /\ clients' = r.clients
    /\ intr' = "none"
    /\ UNCHANGED << ret, completions, shellVars >>

\* agent.query(q), called directly and not interrupted
Query ==
  \E c \in QueryCases : \E rs \in Answers(c) : \E comp \in Completions :
    \E r \in {query(c.q, rs, clients, comp, "none")} :
    /\ op' = "query"
    /\ user_question' = c.q
    /\ answers' = rs
    /\ calls' = r.calls
    /\ context' = r.aws_context
    /\ clients' = r.clients
    /\ ret' = r.ret
    /\ completions' = r.completions
    /\ intr' = "none"
    /\ UNCHANGED shellVars

\* interactive_mode is entered: the banner is printed, the loop starts.
ShellStart ==
  /\ shell = "not_started"
  /\ shell' = "prompt"
  /\ op' = "interactive_mode"
  /\ printed' = << "banner" >>
  /\ UNCHANGED << clients, user_question, answers, calls, context, ret,
                  completions, stdin, read, intr, queries >>

\* One iteration of the loop of interactive_mode.
ShellIteration ==
  /\ shell = "prompt"
  /\ \E rd \in Reads(stdin) : \E b \in Backgrounds :
     \E acct \in RespSet("Account") : \E comp \in Completions :
     \E where \in InterruptPoints :
     \E it \in {iteration(rd, [b EXCEPT !["Account"] = acct], clients, comp, where)} :
       \* an interrupt point is an input only where the iteration passes it
       /\ where # "none" => it.asked
       /\ where = "fetch" => Len(it.q.calls) > 1
       /\ op' = "interactive_mode"
       /\ read' = rd
       /\ intr' = where
       /\ stdin' = IF rd.kind = "eof" THEN "eof" ELSE stdin
       /\ shell' = it.shell
       /\ printed' = it.printed
       /\ queries' = it.queries
       /\ clients' = it.clients
       /\ IF it.asked
            THEN /\ user_question' = strip(rd.text)
                 /\ answers' = [b EXCEPT !["Account"] = acct]
                 /\ calls' = it.q.calls
                 /\ context' = it.q.aws_context
                 /\ completions' = it.q.completions
                 /\ ret' = it.q.ret
            ELSE UNCHANGED << user_question, answers, calls, context,
                              completions, ret >>

NextContext == GetAwsContext
SpecContext == Init /\ [][NextContext]_vars

NextQuery == Query
SpecQuery == Init /\ [][NextQuery]_vars

NextShell == ShellStart \/ ShellIteration
SpecShell == Init /\ [][NextShell]_vars

----------------------------------------------------------------------------
(* Vocabulary of the properties *)

Count(seq, x) == Cardinality({i \in DOMAIN seq : seq[i] = x})

HasLine(text, l) == \E i \in DOMAIN text : text[i] = l

LinesOf(text, dom, tag) ==
  Cardinality({i \in DOMAIN text : text[i].dom = dom /\ text[i].tag = tag})

\* c is the letter k in upper or lower case
SameLetter(c, k) == c = k \/ (c \in DOMAIN UpperToLower /\ UpperToLower[c] = k)

\* the keyword k occurs in s, in any case
OccursAnyCase(k, s) ==
  \E i \in 0..(Len(s) - Len(k)) : \A j \in 1..Len(k) : SameLetter(s[i + j], k[j])

\* the topics of which some keyword occurs in the question
Wanted(q) ==
  { Topics[i].dom : i \in { j \in DOMAIN Topics :
                            \E k \in Topics[j].keywords : OccursAnyCase(k, q) } }

TopicDoms == {"EC2", "S3", "RDS", "Lambda", "Cost", "VPC"}

DeclarationOrder == << "EC2", "S3", "RDS", "Lambda", "Cost", "VPC" >>

\* the domains of the blocks of a text, in the order they appear
RECURSIVE BlockOrder(_)
BlockOrder(text) ==
  IF text = <<>> THEN <<>>
  ELSE LET rest == BlockOrder(Tail(text))
           d == Head(text).dom
       IN IF d = "" THEN rest
          ELSE IF rest # <<>> /\ Head(rest) = d THEN rest
          ELSE << d >> \o rest

\* the entities of an answer that a summary counts
Counted(d, r) ==
  Cardinality({i \in DOMAIN r.items : d # "EC2" \/ r.items[i].state # "terminated"})

AfterContext == op = "get_aws_context"

----------------------------------------------------------------------------
(* Properties of query *)

\* C1 (as claimed): whatever the question and whatever the completion client
\* does, query returns a string.
C1_ReturnsString == op = "query" => ret.type = "str"

----------------------------------------------------------------------------
(* Properties of get_aws_context *)

\* the summary of topic d says what the answer of its source holds
SummaryShown(d) ==
  IF d = "Cost"
    THEN IF answers[d].items # <<>>
           THEN LinesOf(context, d, "amount") = 1
           ELSE LinesOf(context, d, "unavailable") = 1
    ELSE IF Counted(d, answers[d]) > 0
           THEN HasLine(context, Line(d, "header", << Counted(d, answers[d]) >>, ""))
           ELSE LinesOf(context, d, "none") = 1

\* C2: get_aws_context returns whichever sources fail; every topic the
\* question selects is fetched; the text holds a diagnostic for each selected
\* topic whose source failed and the summary of each selected topic whose
\* source answered.
C2_FailuresIsolated ==
  AfterContext =>
    \A d \in Wanted(user_question) :
      /\ Count(calls, d) = 1
      /\ (clients # Unset /\ answers[d].kind = "fail")
           => HasLine(context, Line(d, "unable", <<>>, answers[d].err))
      /\ clients = Unset => LinesOf(context, d, "unable") = 1
      /\ (clients # Unset /\ answers[d].kind = "ok") => SummaryShown(d)

\* C2 witness: billing and bucket asked, S3 fails, the cost source answers.
C2_Witness ==
  /\ AfterContext
  /\ user_question = Q_BucketBilling
  /\ clients = ClientTable
  /\ answers["S3"].kind = "fail"
  /\ answers["Cost"] = Ok(<< Item(1, "", 123456) >>)
  /\ calls = << "Account", "S3", "Cost" >>
  /\ HasLine(context, Line("S3", "unable", <<>>, "AccessDenied"))
  /\ HasLine(context, Line("Cost", "amount", << 123, 46 >>, "USD"))

\* C3 (as claimed): no summary of a list-type domain renders more than Cap
\* items.
C3_AtMostCapItems ==
  AfterContext =>
    \A d \in {"EC2", "S3", "RDS", "Lambda", "VPC"} : LinesOf(context, d, "item") <= Cap

\* C4: a topic is fetched exactly once if one of its keywords occurs in the
\* question in any case, and never otherwise; for "What EC2 instances do I
\* have?" the calls are the account fetch and the EC2 fetch.
C4_FetchedOnceIffKeyword ==
  AfterContext =>
    /\ \A d \in TopicDoms :
         Count(calls, d) = IF d \in Wanted(user_question) THEN 1 ELSE 0
    /\ user_question = Q_WhatEc2 => calls = << "Account", "EC2" >>
    /\ user_question = Q_S3Bucket => calls = << "Account", "S3" >>

\* C4 witness: the EC2 question of the scenario, with a failing S3 source
\* that is not called.
C4_Witness ==
  /\ AfterContext
  /\ user_question = Q_WhatEc2
  /\ answers["S3"].kind = "fail"
  /\ answers["EC2"] = Ok(Items(2, 0))
  /\ Count(calls, "EC2") = 1
  /\ Count(calls, "S3") = 0
  /\ HasLine(context, Line("EC2", "item", << 2 >>, "running"))
  /\ LinesOf(context, "S3", "unable") = 0

AccountShown == clients # Unset /\ answers["Account"].kind # "fail"

IsWanted(d) == d \in Wanted(user_question)

C5_Order ==
  AfterContext =>
    BlockOrder(context) = (IF AccountShown THEN << "Account" >> ELSE <<>>)
                            \o SelectSeq(DeclarationOrder, IsWanted)

C5_SameInSameOut ==
  (op = "get_aws_context" /\ op' = "get_aws_context"
     /\ user_question' = user_question /\ answers' = answers)
    => context' = context

\* C5: the blocks of the returned text are the account block and then the
\* selected topics in declaration order, whatever the order of the keywords
\* in the question and whichever fetches fail; a call with the same question
\* and the same answers as the call before returns the same text.
C5_DeclarationOrder == [] C5_Order /\ [][C5_SameInSameOut]_vars

\* C5 witness: "VPC and RDS" names the topics against declaration order,
\* and one of the two fetches fails.
C5_Witness ==
  /\ AfterContext
  /\ user_question = Q_VpcAndRds
  /\ answers["Account"].kind = "ok"
  /\ answers["VPC"] = Ok(Items(2, 0))
  /\ answers["RDS"].kind = "fail"
  /\ BlockOrder(context) = << "Account", "RDS", "VPC" >>

\* C6: the account fetch is the first call of every get_aws_context; its
\* text opens the context; if it fails nothing of it appears, no error note
\* appears, and the selected topics are fetched all the same.
C6_AccountFirst ==
  AfterContext =>
    /\ calls # <<>> /\ calls[1] = "Account" /\ Count(calls, "Account") = 1
    /\ AccountShown =>
         /\ Len(context) >= 3
         /\ context[1] = Line("Account", "header", <<>>, "")
         /\ context[2] = Line("Account", "id", << answers["Account"].items[1].id >>, "")
    /\ ~ AccountShown =>
         \A i \in DOMAIN context : context[i].dom \notin {"Account", "Note"}
    /\ \A d \in Wanted(user_question) : Count(calls, d) = 1

\* C6 witness: the account fetch fails and the EC2 fetch runs.
C6_Witness ==
  /\ AfterContext
  /\ clients = ClientTable
  /\ user_question = Q_WhatEc2
  /\ answers["Account"].kind = "fail"
  /\ calls = << "Account", "EC2" >>
  /\ context # <<>>
  /\ context[1].dom = "EC2"

DollarLine == Line("Cost", "amount", << 123, 45 >>, "USD")

CostReturns12345 == answers["Cost"] = Ok(<< Item(1, "", 123450) >>)

\* C7 (as claimed): for "how much am I spending" with the cost client
\* returning 123.45 the context has a line with $123.45.
C7_SpendingShowsAmount ==
  (AfterContext /\ user_question = Q_Spending /\ clients = ClientTable
     /\ CostReturns12345)
    => HasLine(context, DollarLine)

\* C7 (amended): for a question holding one of the cost keywords ("Monthly
\* COST", "billing per bucket") with the cost client returning 123.45 the
\* context has a line with $123.45; for "how much am I spending", which holds
\* none of them, the cost fetch is not called and no cost line appears.
C7_CostKeywordShowsAmount ==
  (AfterContext /\ clients = ClientTable /\ CostReturns12345) =>
    /\ user_question \in {Q_MonthlyCost, Q_BucketBilling}
         => HasLine(context, DollarLine)
    /\ user_question = Q_Spending
         => Count(calls, "Cost") = 0 /\ ~ HasLine(context, DollarLine)

\* C7 witness: "Monthly COST" with the cost client returning 123.45.
C7_Witness ==
  /\ AfterContext
  /\ clients = ClientTable
  /\ user_question = Q_MonthlyCost
  /\ CostReturns12345
  /\ HasLine(context, DollarLine)

\* the context holds what the sources answer in this call and nothing else
C8_Fresh ==
  op \in {"get_aws_context"} =>
    /\ \A d \in TopicDoms \ Wanted(user_question) :
         \A i \in DOMAIN context : context[i].dom # d
    /\ AccountShown =>
         HasLine(context, Line("Account", "id", << answers["Account"].items[1].id >>, ""))
    /\ \A d \in Wanted(user_question) \ {"Cost"} :
         (clients # Unset /\ answers[d].kind = "ok") =>
           /\ LinesOf(context, d, "header") = (IF Counted(d, answers[d]) > 0 THEN 1 ELSE 0)
           /\ \A i \in DOMAIN context :
                (context[i].dom = d /\ context[i].tag = "header")
                  => context[i].n = << Counted(d, answers[d]) >>

\* C8: no call changes the client table, and the text of a call holds what
\* the sources answer during that call: nothing of an earlier call is in it.
C8_NoCrossQueryState == [] C8_Fresh /\ [][clients' = clients]_vars

\* C8 witness: the EC2 question answered from a source that now lists
\* MaxItems instances, with the client table as built at startup.
C8_Witness ==
  /\ AfterContext
  /\ clients = ClientTable
  /\ user_question = Q_WhatEc2
  /\ answers["EC2"] = Ok(Items(MaxItems, 0))
  /\ HasLine(context, Line("EC2", "header", << MaxItems >>, ""))

----------------------------------------------------------------------------
(* Properties of interactive_mode *)

Iterated == op = "interactive_mode" /\ read.kind # "none"

IsQuitLine(rd) ==
  rd.kind = "line" /\ \E w \in QuitWords :
    LET t == strip(rd.text) IN
    Len(t) = Len(w) /\ \A j \in 1..Len(w) : SameLetter(t[j], w[j])

IsEmptyLine(rd) == rd.kind = "line" /\ \A j \in DOMAIN rd.text : rd.text[j] \in Whitespace

\* C9 (as claimed): a quit, exit or q line ends the loop without a query; an
\* empty line re-prompts without a query; an interrupt ends the loop; any
\* other line makes exactly one query whose result is printed.
C9_LoopContract ==
  Iterated =>
    /\ IsQuitLine(read) => shell = "done" /\ queries = 0
    /\ IsEmptyLine(read) => shell = "prompt" /\ queries = 0
    /\ (read.kind = "interrupt" \/ intr # "none") => shell = "done"
    /\ (read.kind = "line" /\ ~ IsQuitLine(read) /\ ~ IsEmptyLine(read)) =>
         /\ queries = 1
         /\ shell = "prompt" => printed = << "agent_prefix", "response", "separator" >>

Interrupted(rd, where) == rd.kind = "interrupt" \/ where # "none"

C10_Reported ==
  (Iterated /\ read.kind \in {"eof", "error"}) =>
    shell = "prompt" /\ printed = << "error" >> /\ queries = 0

C10_EndsOnlyOnQuitOrInterrupt ==
  (shell = "prompt" /\ shell' # "prompt") =>
    IsQuitLine(read') \/ Interrupted(read', intr')

C10_ExhaustedNeverEnds ==
  stdin = "eof" =>
    /\ stdin' = "eof"
    /\ (shell = "prompt" /\ shell' # "prompt") => read'.kind = "interrupt"

\* C10: an exception other than the interrupt raised in an iteration (the
\* end of input included) is reported as an error line and the loop goes on;
\* the loop ends only on a quit line or an interrupt; once the input has
\* ended only an interrupt ends it.
C10_LoopSurvivesExceptions ==
  /\ [] C10_Reported
  /\ [][C10_EndsOnlyOnQuitOrInterrupt]_vars
  /\ [][C10_ExhaustedNeverEnds]_vars

\* C10 witness: the input has ended, the error was printed, the loop prompts
\* again.
C10_Witness ==
  /\ Iterated
  /\ stdin = "eof"
  /\ read.kind = "eof"
  /\ printed = << "error" >>
  /\ shell = "prompt"

============================================================================
